---- MODULE Spec2Model ----
(***************************************************************************)
(* Primer pair selection: the randomized search of Primer_Pair_SL.py and   *)
(* the integer linear program of Primer_Pair_SL_V2.py.                     *)
(*                                                                         *)
(* Numbers that are floats k/4 in the code (ideal_count = total / 4, the   *)
(* scores and the objective built from it) are carried in quarters: the    *)
(* model's value is 4 times the code's.  k/4 is exact in binary floating   *)
(* point, so comparisons and equalities are those of the code.             *)
(***************************************************************************)
EXTENDS Integers, Sequences, FiniteSets, TLC

\* ------------------------------------------------------------------ bounds
\* Trials of the search loop (the code runs 10000).
TrialBudget == 2
\* Largest number of rows of the used-pairs sheet.
MaxUsed == 10
\* The requests entered: 1..SmallRequest and the default up to max_value.
SmallRequest == 3
\* Slider settings kept: those with at most MaxDraws possible draws a trial.
MaxDraws == 10
\* Largest request and largest capacity handed to optimal_primer_counts alone.
MaxN == 12
MaxCap == 6

\* ------------------------------------------------------- program constants
\* range(8): the positions both programs look at.
NumPositions == 8
\* 'ATCG', in the order the code iterates it.
Bases == <<"A", "T", "C", "G">>
\* float('inf'): compared only through LessThan.
Inf == -1
\* value=5 and value=10 of the two sliders, value=60 of the number input.
DefaultForward == 5
DefaultReverse == 10
DefaultSamples == 60

\* ------------------------------------------------------------------ inputs
AAAATTTT == <<"A", "A", "A", "A", "T", "T", "T", "T">>
CCCCGGGG == <<"C", "C", "C", "C", "G", "G", "G", "G">>
TTTTAAAA == <<"T", "T", "T", "T", "A", "A", "A", "A">>
GGGGCCCC == <<"G", "G", "G", "G", "C", "C", "C", "C">>
AAAAAAAA == <<"A", "A", "A", "A", "A", "A", "A", "A">>

\* The sequences a sheet's rows cycle through, per orientation.
ForwardLibrary == <<AAAATTTT, CCCCGGGG, AAAAAAAA>>
ReverseLibrary == <<TTTTAAAA, GGGGCCCC, AAAAAAAA>>

\* The index names of the sheet, in row order (a dict keeps insertion order).
ForwardKeys == <<"F1", "F2", "F3", "F4", "F5", "F6", "F7", "F8">>
ReverseKeys == <<"R1", "R2", "R3", "R4", "R5", "R6", "R7", "R8", "R9", "R10">>

\* The numbers of forward and reverse rows of the sheets tried: for the
\* search, sheets below and at the sliders' defaults; for the program, sheets
\* below and above the number input's default.
SearchForwardSizes == {4, 5}
SearchReverseSizes == {9, 10}
ProgramForwardSizes == {7, 8}
ProgramReverseSizes == {8, 9, 10}

Prefix(keys, k) == {keys[i] : i \in 1..k}

\* dict(zip(indexname, sequence)) of a sheet of k rows whose sequences cycle
\* through the library.
Pool(keys, library, k) ==
    [name \in Prefix(keys, k) |->
        LET i == CHOOSE x \in 1..k : keys[x] = name
        IN library[((i - 1) % Len(library)) + 1]]

Pools(keys, library, sizes) == {Pool(keys, library, k) : k \in sizes}

\* The names a used-pairs sheet goes through, column by column: the names of
\* the largest primer sheet, then names no primer sheet holds.
UsedForwardNames ==
    <<"F1", "F2", "F3", "F4", "F5", "F6", "F7", "F8", "X1", "X2", "X3", "X4">>
UsedReverseNames ==
    <<"R1", "R2", "R3", "R4", "R5", "R6", "R7", "R8", "R9", "Y1", "Y2", "Y3">>

\* set(zip(Forward, Reverse)) of a used-pairs sheet of k rows: row i pairs
\* the i-th names ("diagonal"), the i-th forward with the next reverse
\* ("shifted"), or keeps one forward ("row") or one reverse ("column").
UsedSheet(shape, k) ==
    {<<UsedForwardNames[IF shape = "row" THEN 1 ELSE i],
       UsedReverseNames[IF shape = "column" THEN 1
                        ELSE IF shape = "shifted"
                             THEN (i % Len(UsedReverseNames)) + 1
                             ELSE i]>> : i \in 1..k}

\* list(d.keys()): the pool's names in insertion order.
KeyList(keys, pool) == SelectSeq(keys, LAMBDA k : k \in DOMAIN pool)

\* ------------------------------------------------------------- arithmetic
Abs(x) == IF x < 0 THEN -x ELSE x

Min2(a, b) == IF a <= b THEN a ELSE b

RECURSIVE SumSeq(_)
SumSeq(s) == IF s = <<>> THEN 0 ELSE Head(s) + SumSeq(Tail(s))

\* sum(c.values()) of a Counter.
RECURSIVE SumValues(_)
SumValues(c) ==
    IF DOMAIN c = {} THEN 0
    ELSE LET b == CHOOSE x \in DOMAIN c : TRUE
         IN c[b] + SumValues([x \in DOMAIN c \ {b} |-> c[x]])

\* ------------------------------------------------- Primer_Pair_SL.py 15-26
\* A Counter is a function whose domain is the keys it holds; a key it does
\* not hold reads 0 (Counter.__missing__, dict.get(base, 0)).
Get(c, b) == IF b \in DOMAIN c THEN c[b] ELSE 0

\* calculate_nucleotide_frequencies over the primers named by sel: one
\* Counter per position, holding only the bases that occur there.
calculate_nucleotide_frequencies(pool, sel) ==
    [i \in 1..NumPositions |->
        [b \in {pool[k][i] : k \in sel} |->
            Cardinality({k \in sel : pool[k][i] = b})]]

\* Counter.__add__: the sum, keeping only positive counts.
CounterAdd(c1, c2) ==
    [b \in {x \in DOMAIN c1 \cup DOMAIN c2 : Get(c1, x) + Get(c2, x) > 0} |->
        Get(c1, b) + Get(c2, b)]

\* abs(ideal_count - count) in quarters.
Deviation4(total, count) == Abs(total - 4 * count)

\* calculate_diversity_score, in quarters: the sum runs over pos.values(),
\* the counts of the bases the Counter holds.
calculate_diversity_score(nucleotide_counts, total_primers) ==
    SumSeq([i \in 1..NumPositions |->
        SumValues([b \in DOMAIN nucleotide_counts[i] |->
            Deviation4(total_primers, nucleotide_counts[i][b])])])

\* Lines 40-45: the combined table of one draw.
TotalFrequencies(fp, rp, sf, sr) ==
    [i \in 1..NumPositions |->
        CounterAdd(calculate_nucleotide_frequencies(fp, sf)[i],
                   calculate_nucleotide_frequencies(rp, sr)[i])]

\* Variant of LessThan: <= in place of <, so a later equal score overwrites.
LessOrEqual(score, best) == best = Inf \/ score <= best

\* score < best_score, with best_score possibly float('inf').
LessThan(score, best) == best = Inf \/ score < best

\* random.sample(list(pool.keys()), k): the names drawn; none when k exceeds
\* the pool (ValueError, see SliderError).  The order of the sample
\* is dropped: the tables and the score do not depend on it.
Samples(pool, k) == {s \in SUBSET DOMAIN pool : Cardinality(s) = k}

\* create_nucleotide_matrix: rows A, T, C, G and the 'Sum to:' row.
create_nucleotide_matrix(frequencies) ==
    [i \in 1..NumPositions |->
        LET counts == [j \in 1..Len(Bases) |-> Get(frequencies[i], Bases[j])]
        IN Append(counts, SumSeq(counts))]

\* --------------------------------------------- Primer_Pair_SL_V2.py 50-58
\* Variant of IntSqrt: the search starts one below the root.
IntSqrtLow(n) == CHOOSE r \in 0..n : (r + 1) * (r + 1) <= n /\ (r + 2) * (r + 2) > n

\* int(math.sqrt(n)).
IntSqrt(n) == CHOOSE r \in 0..n : r * r <= n /\ (r + 1) * (r + 1) > n

\* Variant of CeilDiv: the quotient rounded down.
FloorDiv(n, i) == n \div i

\* math.ceil(n / i), i >= 1.
CeilDiv(n, i) == (n + i - 1) \div i

\* The loop body for i, i - 1, ..., 1 and the return that follows the loop.
RECURSIVE SearchFrom(_, _, _, _)
SearchFrom(n, max_forwards, max_reverses, i) ==
    IF i < 1
    THEN <<Min2(max_forwards, max_reverses), Min2(max_forwards, max_reverses)>>
    ELSE LET j == CeilDiv(n, i)
         IN IF i <= max_forwards /\ j <= max_reverses THEN <<i, j>>
            ELSE IF j <= max_forwards /\ i <= max_reverses THEN <<j, i>>
            ELSE SearchFrom(n, max_forwards, max_reverses, i - 1)

optimal_primer_counts(n, max_forwards, max_reverses) ==
    SearchFrom(n, max_forwards, max_reverses, IntSqrt(n))

\* --------------------------------------------- Primer_Pair_SL_V2.py 26-47
\* The used-pairs sheets tried, of at most MaxUsed rows.
UsedPairSets ==
    {UsedSheet(shape, k) :
        shape \in {"diagonal", "shifted", "row", "column"}, k \in 0..MaxUsed}

UsedForward(used) == {p[1] : p \in used}
UsedReverse(used) == {p[2] : p \in used}

\* max_possible_pairs - len(used_pairs): the number_input's max_value.
MaxValue(fp, rp, used) ==
    Cardinality(DOMAIN fp) * Cardinality(DOMAIN rp) - Cardinality(used)

\* -------------------------------------------- Primer_Pair_SL_V2.py 77-114
\* total_count of one (position, base) at a 0/1 point of the binaries.
TotalCount(fp, rp, sf, sr, i, b) ==
    Cardinality({k \in sf : fp[k][i] = b})
        + Cardinality({k \in sr : rp[k][i] = b})

\* The objective at a 0/1 point, in quarters: each deviation variable sits
\* at the larger of its two lower bounds, |ideal_count - total_count|, for
\* all four bases of every position.
Objective4(fp, rp, sf, sr, nf, nr) ==
    SumSeq([i \in 1..NumPositions |->
        SumSeq([j \in 1..Len(Bases) |->
            Deviation4(nf + nr, TotalCount(fp, rp, sf, sr, i, Bases[j]))])])

\* Lines 104-105: the two equalities.
Cardinalities(a, nf, nr) ==
    Cardinality(a[1]) = nf /\ Cardinality(a[2]) = nr

\* The exclusion inequality with its right-hand side one too large: it binds
\* nothing.
ExclusionsAtMostTwo(fp, rp, used, a) ==
    \A p \in used :
        (p[1] \in DOMAIN fp /\ p[2] \in DOMAIN rp)
            => Cardinality({p[1]} \cap a[1]) + Cardinality({p[2]} \cap a[2]) <= 2

\* Lines 108-110: one inequality per used pair whose names are both variables.
Exclusions(fp, rp, used, a) ==
    \A p \in used :
        (p[1] \in DOMAIN fp /\ p[2] \in DOMAIN rp)
            => ~(p[1] \in a[1] /\ p[2] \in a[2])

FeasiblePoints(fp, rp, used, nf, nr) ==
    {a \in Samples(fp, nf) \X Samples(rp, nr) :
        Cardinalities(a, nf, nr) /\ Exclusions(fp, rp, used, a)}

\* problem.solve(): an optimal point when there is one, its binaries read as
\* exactly 0 or 1.  The script builds an infeasible problem only with both
\* cardinalities negative (lines 61-69 with more used names than pool names):
\* the equalities of lines 104-105 then ask for a negative sum of binaries,
\* which no binary at 1 brings closer, and the solver reports the problem
\* infeasible with no binary at 1.  Whether it leaves varValue unset or at
\* the lower bound 0, the test varValue == 1 of lines 117-118 fails for every
\* name, so the point read is the empty one; the deviation variables are
\* read at 0.
SolveOutcomes(fp, rp, used, nf, nr) ==
    LET feas == FeasiblePoints(fp, rp, used, nf, nr)
        obj(a) == Objective4(fp, rp, a[1], a[2], nf, nr)
        valued == {<<a, obj(a)>> : a \in feas}
        least == CHOOSE v \in {x[2] : x \in valued} :
                    \A x \in valued : v <= x[2]
    IN IF feas # {}
       THEN {[status |-> "Optimal", point |-> x[1], objective |-> x[2]] :
                x \in {y \in valued : y[2] = least}}
       ELSE {[status |-> "Infeasible", point |-> <<{}, {}>>, objective |-> 0]}

\* ------------------------------------------- Primer_Pair_SL_V2.py 116-130
\* [key for key in vars if vars[key].varValue == 1]
Selected(keys, chosen) == SelectSeq(keys, LAMBDA k : k \in chosen)

\* [(fwd, rev) for fwd in forwards for rev in reverses]
RECURSIVE CrossPairs(_, _)
CrossPairs(forwards, reverses) ==
    IF forwards = <<>> THEN <<>>
    ELSE [j \in 1..Len(reverses) |-> <<Head(forwards), reverses[j]>>]
            \o CrossPairs(Tail(forwards), reverses)

\* lst[:k], k >= 0.
Slice(lst, k) == SubSeq(lst, 1, Min2(k, Len(lst)))

\* Variant of Truncate: the list is never cut.
KeepAll(pairs, n) == pairs

\* Lines 126-130: the list kept, whichever branch is taken.
Truncate(pairs, n) ==
    IF Len(pairs) < n THEN Slice(pairs, Len(pairs)) ELSE Slice(pairs, n)

\* ------------------------------------------------------------------- state
VARIABLES
    pc,                         \* where the run is
    forward_primers,            \* name -> sequence
    reverse_primers,
    \* Primer_Pair_SL.py
    num_forward,
    num_reverse,
    trial,                      \* iterations of the loop done
    score,
    best_score,
    best_combination,
    total_frequencies,
    history,                    \* every trial's draw and score, in order
    returned,                   \* what select_optimal_primers returned
    matrix_df,
    \* Primer_Pair_SL_V2.py
    used_pairs,
    num_new_samples,
    available_forwards,
    available_reverses,
    num_forward_to_select,
    num_reverse_to_select,
    status,                     \* what solve() reported
    selected_forward_primers,
    selected_reverse_primers,
    new_assigned_pairs,
    warning,                    \* the count st.warning reports, if it did
    objective

poolVars == <<forward_primers, reverse_primers>>
slVars == <<num_forward, num_reverse, trial, score, best_score,
            best_combination, total_frequencies, history, returned, matrix_df>>
sizeVars == <<num_new_samples, available_forwards, available_reverses,
              num_forward_to_select, num_reverse_to_select>>
runVars == <<status, selected_forward_primers, selected_reverse_primers,
             new_assigned_pairs, warning, objective>>
vars == <<pc, poolVars, slVars, used_pairs, sizeVars, runVars>>

SlIdle ==
    /\ num_forward = 0 /\ num_reverse = 0 /\ trial = 0 /\ score = 0
    /\ best_score = Inf /\ best_combination = <<>>
    /\ total_frequencies = <<>> /\ history = <<>>
    /\ returned = <<>> /\ matrix_df = <<>>

SizeIdle ==
    /\ num_new_samples = 0
    /\ available_forwards = 0 /\ available_reverses = 0
    /\ num_forward_to_select = 0 /\ num_reverse_to_select = 0

RunIdle ==
    /\ status = "" /\ selected_forward_primers = <<>>
    /\ selected_reverse_primers = <<>> /\ new_assigned_pairs = <<>>
    /\ warning = <<>> /\ objective = 0

\* ------------------------------------------- Primer_Pair_SL.py, the run
\* Lines 83-104: the pools as they stand after the optional filter of lines
\* 96-100.
InitSL ==
    /\ pc = "sliders"
    /\ forward_primers \in Pools(ForwardKeys, ForwardLibrary, SearchForwardSizes)
    /\ reverse_primers \in Pools(ReverseKeys, ReverseLibrary, SearchReverseSizes)
    /\ used_pairs = {} /\ SlIdle /\ SizeIdle /\ RunIdle

\* Lines 106-107: what the two sliders return on a script run.  On the first
\* run each is at its default; on a later run each is at its default or where
\* the user moved it, within 1..pool size.
SliderValues ==
    IF pc = "sliders"
    THEN {<<DefaultForward, DefaultReverse>>}
    ELSE ((1..Cardinality(DOMAIN forward_primers)) \cup {DefaultForward})
            \X ((1..Cardinality(DOMAIN reverse_primers)) \cup {DefaultReverse})

\* The counts the sliders returned are within the pools, so that
\* random.sample (lines 34-35) can draw them.
SlidersFit(nf, nr) ==
    /\ nf <= Cardinality(DOMAIN forward_primers)
    /\ nr <= Cardinality(DOMAIN reverse_primers)

\* A script run starts: the first one after the upload, or a rerun after the
\* user moved a slider, which happens once the previous run has ended (the
\* loop makes no Streamlit call at which a rerun could interrupt it).
RunStarts == pc \in {"sliders", "error", "returned"}

\* The state of a script run at line 110, with the sliders at nf and nr:
\* nothing of an earlier run is kept.
RunState(nf, nr) ==
    /\ num_forward' = nf
    /\ num_reverse' = nr
    /\ trial' = 0 /\ score' = 0
    /\ best_score' = Inf /\ best_combination' = <<>>
    /\ total_frequencies' = <<>> /\ history' = <<>>
    /\ returned' = <<>> /\ matrix_df' = <<>>

\* Lines 106-112 with a slider above its pool (a default the pool is smaller
\* than): random.sample raises ValueError at line 34 (forward) or line 35
\* (reverse) in the first trial, and the run ends holding the sliders' values.
SliderError ==
    /\ RunStarts
    /\ \E v \in SliderValues :
        /\ ~SlidersFit(v[1], v[2])
        /\ RunState(v[1], v[2])
    /\ pc' = "error"
    /\ UNCHANGED <<poolVars, used_pairs, sizeVars, runVars>>

\* Lines 106-112 with both sliders within the pools: the search is called.
Sliders ==
    /\ RunStarts
    /\ \E v \in SliderValues :
        /\ SlidersFit(v[1], v[2])
        /\ Cardinality(Samples(forward_primers, v[1]))
                * Cardinality(Samples(reverse_primers, v[2])) <= MaxDraws
        /\ RunState(v[1], v[2])
    /\ pc' = "loop"
    /\ UNCHANGED <<poolVars, used_pairs, sizeVars, runVars>>

\* Lines 34-51: one iteration of the loop.
Trial ==
    /\ pc = "loop" /\ trial < TrialBudget
    /\ \E selected_forward \in Samples(forward_primers, num_forward),
          selected_reverse \in Samples(reverse_primers, num_reverse) :
        LET freq == TotalFrequencies(forward_primers, reverse_primers,
                                     selected_forward, selected_reverse)
            s == calculate_diversity_score(freq, num_forward + num_reverse)
        IN /\ total_frequencies' = freq
           /\ score' = s
           /\ IF LessThan(s, best_score)
              THEN /\ best_score' = s
                   /\ best_combination' = <<selected_forward, selected_reverse>>
              ELSE UNCHANGED <<best_score, best_combination>>
           /\ history' = Append(history,
                  [draw |-> <<selected_forward, selected_reverse>>, score |-> s])
    /\ trial' = trial + 1
    /\ UNCHANGED <<pc, poolVars, num_forward, num_reverse, returned, matrix_df,
                   used_pairs, sizeVars, runVars>>

\* Line 53 and lines 110-119: the return and the matrix built from it.
Return ==
    /\ pc = "loop" /\ trial = TrialBudget
    /\ returned' = <<best_combination, best_score, total_frequencies>>
    /\ matrix_df' = create_nucleotide_matrix(total_frequencies)
    /\ pc' = "returned"
    /\ UNCHANGED <<poolVars, num_forward, num_reverse, trial, score, best_score,
                   best_combination, total_frequencies, history,
                   used_pairs, sizeVars, runVars>>

NextSL == SliderError \/ Sliders \/ Trial \/ Return

SpecSL == InitSL /\ [][NextSL]_vars

\* ---------------------------------------- Primer_Pair_SL_V2.py, the run
\* Lines 16-39: the pools and the used pairs as loaded.
Init ==
    /\ pc = "loaded"
    /\ forward_primers \in Pools(ForwardKeys, ForwardLibrary, ProgramForwardSizes)
    /\ reverse_primers \in Pools(ReverseKeys, ReverseLibrary, ProgramReverseSizes)
    /\ used_pairs \in UsedPairSets
    /\ SlIdle /\ SizeIdle /\ RunIdle

\* st.number_input(min_value=1, max_value=..., value=60) accepts its
\* arguments: the default lies within min_value..max_value.
NumberInputAccepts(max_value) ==
    1 <= DefaultSamples /\ DefaultSamples <= max_value

\* Lines 42-47 when the widget rejects its arguments: the run ends there.
NumberInputError ==
    /\ pc = "loaded"
    /\ ~NumberInputAccepts(MaxValue(forward_primers, reverse_primers, used_pairs))
    /\ pc' = "widget_error"
    /\ UNCHANGED <<poolVars, slVars, used_pairs, sizeVars, runVars>>

\* The numbers entered: the default and what lies above it, and the smallest.
Requests(max_value) ==
    (1..SmallRequest) \cup (DefaultSamples..max_value)

\* Lines 42-110: the number the widget holds (its default or what the user
\* entered, within min_value..max_value), the sizing, the capacity check and
\* the problem built from them.
Script ==
    /\ pc = "loaded"
    /\ NumberInputAccepts(MaxValue(forward_primers, reverse_primers, used_pairs))
    /\ \E n \in Requests(MaxValue(forward_primers, reverse_primers, used_pairs)) :
        LET af == Cardinality(DOMAIN forward_primers)
                    - Cardinality(UsedForward(used_pairs))
            ar == Cardinality(DOMAIN reverse_primers)
                    - Cardinality(UsedReverse(used_pairs))
            counts == optimal_primer_counts(n, af, ar)
        IN /\ num_new_samples' = n
           /\ available_forwards' = af
           /\ available_reverses' = ar
           /\ num_forward_to_select' = counts[1]
           /\ num_reverse_to_select' = counts[2]
           /\ pc' = IF n > af * ar THEN "stopped" ELSE "ready"
    /\ UNCHANGED <<poolVars, slVars, used_pairs, runVars>>

\* Lines 113-133: the button.
RunOptimization ==
    /\ pc = "ready"
    /\ \E out \in SolveOutcomes(forward_primers, reverse_primers, used_pairs,
                                num_forward_to_select, num_reverse_to_select) :
        LET sf == Selected(KeyList(ForwardKeys, forward_primers), out.point[1])
            sr == Selected(KeyList(ReverseKeys, reverse_primers), out.point[2])
            pairs == CrossPairs(sf, sr)
        IN /\ status' = out.status
           /\ selected_forward_primers' = sf
           /\ selected_reverse_primers' = sr
           /\ new_assigned_pairs' = Truncate(pairs, num_new_samples)
           /\ warning' = IF Len(pairs) < num_new_samples
                         THEN <<Len(pairs), num_new_samples>> ELSE <<>>
           /\ objective' = out.objective
    /\ pc' = "done"
    /\ UNCHANGED <<poolVars, slVars, used_pairs, sizeVars>>

Next == NumberInputError \/ Script \/ RunOptimization

Spec == Init /\ [][Next]_vars

\* --------------------------------- optimal_primer_counts on its own inputs
InitSizing ==
    /\ pc = "call"
    /\ forward_primers = <<>> /\ reverse_primers = <<>> /\ used_pairs = {}
    /\ num_new_samples \in 1..MaxN
    /\ available_forwards \in 0..MaxCap
    /\ available_reverses \in 0..MaxCap
    /\ num_forward_to_select = 0 /\ num_reverse_to_select = 0
    /\ SlIdle /\ RunIdle

\* Lines 65-69.
Call ==
    /\ pc = "call"
    /\ LET counts == optimal_primer_counts(num_new_samples,
                         available_forwards, available_reverses)
       IN /\ num_forward_to_select' = counts[1]
          /\ num_reverse_to_select' = counts[2]
    /\ pc' = "sized"
    /\ UNCHANGED <<poolVars, slVars, used_pairs, num_new_samples,
                   available_forwards, available_reverses, runVars>>

NextSizing == Call

SpecSizing == InitSizing /\ [][NextSizing]_vars

\* ================================================================== claims
Range(q) == {q[k] : k \in DOMAIN q}

Keys(pool) == DOMAIN pool

\* The problem the run built has a point satisfying all its constraints.
ProblemFeasible ==
    FeasiblePoints(forward_primers, reverse_primers, used_pairs,
                   num_forward_to_select, num_reverse_to_select) # {}

\* C1: after the solve, no used pair has both its forward and its reverse
\* name among the selected names.
C1_ExclusionInvariant ==
    pc = "done" =>
        \A p \in used_pairs :
            ~(p[1] \in Range(selected_forward_primers)
                /\ p[2] \in Range(selected_reverse_primers))

\* C1's case: the solve selected the forward name of a used pair whose
\* reverse name is in the pool, together with other reverse names.
C1_UsedForwardSelected ==
    /\ pc = "done" /\ status = "Optimal"
    /\ selected_reverse_primers # <<>>
    /\ \E p \in used_pairs :
        /\ p[1] \in Range(selected_forward_primers)
        /\ p[2] \in DOMAIN reverse_primers

\* C2: a problem with no feasible point ends in an error; the run never goes
\* on to report a selection, a pair list and an objective for it.
C2_InfeasibleNeverReported ==
    ~(pc = "done" /\ status = "Infeasible")

\* The precondition of C3: a request that the capacities can cover.
SizingCovered ==
    /\ num_new_samples >= 1
    /\ available_forwards >= 1 /\ available_reverses >= 1
    /\ num_new_samples <= available_forwards * available_reverses

\* (i, j) fits the capacities in one orientation or the other.
Fits(i, j) ==
    \/ i <= available_forwards /\ j <= available_reverses
    \/ j <= available_forwards /\ i <= available_reverses

\* The least j with i * j >= n.
LeastCover(n, i) == CHOOSE j \in 1..n : i * j >= n /\ i * (j - 1) < n

\* The i of the search, 1 <= i <= sqrt(n), whose pair (i, LeastCover) fits.
FittingSteps ==
    {i \in 1..num_new_samples :
        i * i <= num_new_samples /\ Fits(i, LeastCover(num_new_samples, i))}

\* C3: when the capacities can cover the request, the counts returned lie
\* within 1..capacity each and their product covers the request.
C3_SizingCovers ==
    (pc = "sized" /\ SizingCovered) =>
        /\ 1 <= num_forward_to_select
        /\ num_forward_to_select <= available_forwards
        /\ 1 <= num_reverse_to_select
        /\ num_reverse_to_select <= available_reverses
        /\ num_forward_to_select * num_reverse_to_select >= num_new_samples

\* C3's case: a covered request for which the search finds nothing and the
\* fallback (min, min) is what is returned.
C3_FallbackCovered ==
    /\ pc = "sized" /\ SizingCovered
    /\ FittingSteps = {}
    /\ num_forward_to_select = Min2(available_forwards, available_reverses)
    /\ num_reverse_to_select = num_forward_to_select

\* The factor pairs of the request that fit the capacities as (forward, reverse).
FittingFactorPairs ==
    {f \in (1..num_new_samples) \X (1..num_new_samples) :
        /\ f[1] * f[2] = num_new_samples
        /\ f[1] <= available_forwards /\ f[2] <= available_reverses}

\* C4 as stated: whenever some factor pair of the request fits, the counts
\* returned are a fitting factor pair with the least |forward - reverse|.
C4_ExactFactorPair ==
    (pc = "sized" /\ FittingFactorPairs # {}) =>
        /\ <<num_forward_to_select, num_reverse_to_select>> \in FittingFactorPairs
        /\ \A f \in FittingFactorPairs :
            Abs(num_forward_to_select - num_reverse_to_select) <= Abs(f[1] - f[2])

\* C4 as amended: whenever some i in 1..floor(sqrt(P)) has (i, ceil(P/i))
\* fitting in either orientation, the counts returned are that pair for the
\* largest such i, forward = i when that orientation fits; the product covers
\* P and equals P when i divides P; P = 12 with room for (3,4) gives (3,4).
C4_LargestFittingStep ==
    (pc = "sized" /\ FittingSteps # {}) =>
        LET i == CHOOSE x \in FittingSteps : \A y \in FittingSteps : y <= x
            j == LeastCover(num_new_samples, i)
        IN /\ <<num_forward_to_select, num_reverse_to_select>> =
                IF i <= available_forwards /\ j <= available_reverses
                THEN <<i, j>> ELSE <<j, i>>
           /\ num_forward_to_select * num_reverse_to_select >= num_new_samples
           /\ (num_new_samples % i = 0 =>
                num_forward_to_select * num_reverse_to_select = num_new_samples)
           /\ (num_new_samples = 12 /\ available_forwards >= 3
                    /\ available_reverses >= 4 =>
                <<num_forward_to_select, num_reverse_to_select>> = <<3, 4>>)

\* C4's case: a factor pair fits, yet the pair returned comes from an i that
\* does not divide the request, so the product exceeds it.
C4_NonDivisorReturned ==
    /\ pc = "sized" /\ FittingFactorPairs # {} /\ FittingSteps # {}
    /\ num_forward_to_select * num_reverse_to_select > num_new_samples

\* C5: the pair list is exactly the first min(requested, |F| * |R|) entries
\* of the cross product, forward outer and reverse inner; so it has no
\* duplicate, at most the requested number of entries, and in a shortfall
\* all |F| * |R| pairs, that number being the count reported.
C5_PairAssignment ==
    pc = "done" =>
        LET F == selected_forward_primers
            R == selected_reverse_primers
            all == Len(F) * Len(R)
            m == Min2(num_new_samples, all)
        IN /\ Len(new_assigned_pairs) = m
           /\ \A k \in 1..m :
                new_assigned_pairs[k] =
                    <<F[((k - 1) \div Len(R)) + 1], R[((k - 1) % Len(R)) + 1]>>
           /\ Cardinality(Range(new_assigned_pairs)) = Len(new_assigned_pairs)
           /\ Len(new_assigned_pairs) <= num_new_samples
           /\ (all < num_new_samples =>
                /\ Len(new_assigned_pairs) = all
                /\ warning = <<all, num_new_samples>>)
           /\ (all >= num_new_samples => warning = <<>>)

\* C5's case: an optimal selection of several forwards and reverses whose
\* cross product is longer than the request and is cut to it.
C5_TruncatedCrossProduct ==
    /\ pc = "done" /\ status = "Optimal"
    /\ Len(selected_forward_primers) >= 2 /\ Len(selected_reverse_primers) >= 2
    /\ Len(selected_forward_primers) * Len(selected_reverse_primers)
            > num_new_samples
    /\ Len(new_assigned_pairs) = num_new_samples

\* C6: the table returned by select_optimal_primers is the table of the best
\* selection it returns, and the score returned is the score of that table.
C6_ReturnedTableIsBest ==
    pc = "returned" =>
        /\ returned[3] = TotalFrequencies(forward_primers, reverse_primers,
                                          returned[1][1], returned[1][2])
        /\ returned[2] = calculate_diversity_score(returned[3],
                                                   num_forward + num_reverse)

\* C7: with no used pairs, the objective reported by the exact selector is at
\* most the score calculate_diversity_score gives any subset of the same
\* sizes, hence at most the best score of the search.
C7_ExactDominates ==
    (pc = "done" /\ used_pairs = {}) =>
        \A sf \in Samples(forward_primers, num_forward_to_select),
           sr \in Samples(reverse_primers, num_reverse_to_select) :
            objective <= calculate_diversity_score(
                TotalFrequencies(forward_primers, reverse_primers, sf, sr),
                num_forward_to_select + num_reverse_to_select)

\* The L1 deviation over every position and all four bases, in quarters.
FullGridDeviation4(frequencies, total) ==
    SumSeq([i \in 1..NumPositions |->
        SumSeq([j \in 1..Len(Bases) |->
            Abs(total - 4 * Get(frequencies[i], Bases[j]))])])

\* C8: the score of a trial is the L1 deviation over the full grid, a base
\* absent from a position counting |ideal - 0|; it is 0 exactly when every
\* (position, base) count equals the ideal count.
C8_FullGridScore ==
    (pc = "loop" /\ trial >= 1) =>
        /\ score = FullGridDeviation4(total_frequencies, num_forward + num_reverse)
        /\ (score = 0 <=>
                \A i \in 1..NumPositions : \A j \in 1..Len(Bases) :
                    4 * Get(total_frequencies[i], Bases[j])
                        = num_forward + num_reverse)

\* C9: after every trial the tracked best score is the least score of the
\* trials so far, and the tracked combination is the draw of the earliest
\* trial with that score.
C9_BestIsEarliestMinimum ==
    trial >= 1 =>
        LET first == CHOOSE k \in 1..Len(history) :
                        /\ \A m \in 1..Len(history) :
                                history[k].score <= history[m].score
                        /\ \A m \in 1..(k - 1) :
                                history[m].score > history[k].score
        IN /\ Len(history) = trial
           /\ best_score = history[first].score
           /\ best_combination = history[first].draw

\* C9's case: a later trial drew another subset with the same least score and
\* the earlier one is still the tracked best.
C9_LaterTieNotTaken ==
    /\ trial >= 2
    /\ \E k \in 2..Len(history) :
        /\ history[k].score = best_score
        /\ history[k].draw # best_combination
        /\ \E m \in 1..(k - 1) : history[m].draw = best_combination

\* C10: a request that passes the capacity check gets counts within
\* 1..pool size and a problem with a feasible point.
C10_CapacityCheckGuards ==
    pc \in {"ready", "done"} =>
        /\ 1 <= num_forward_to_select
        /\ num_forward_to_select <= Cardinality(Keys(forward_primers))
        /\ 1 <= num_reverse_to_select
        /\ num_reverse_to_select <= Cardinality(Keys(reverse_primers))
        /\ ProblemFeasible

====
